---- MODULE Spec2Model ----
(***************************************************************************)
(* The authentication context of the eBook platform's React frontend       *)
(* (AuthProvider): the session store, the axios request and response       *)
(* interceptors, the de-duplicated token refresh and the auth operations.  *)
(*                                                                         *)
(* One action is one turn of the JavaScript event loop: a task (a user     *)
(* event, an HTTP response, a React commit) together with all the promise  *)
(* continuations it makes runnable.  The backend is an external            *)
(* collaborator: it answers every call with 200, 401 or another error.     *)
(*                                                                         *)
(* Three page components are modelled next to it, each under its own       *)
(* specification: the reorderable list of imported sections (ImportCenter),*)
(* the debounce helper of the book editor, and the editor's text-to-speech *)
(* controls.  A specification leaves the other components' state alone.    *)
(***************************************************************************)
EXTENDS Integers, Sequences, FiniteSets, TLC

\* ------------------------------------------------------------------ bounds
MaxTok == 2        \* token pairs the backend issues over a run (1..MaxTok)
MaxReqs == 4       \* HTTP calls of any kind made over a run
MaxSections == 4   \* sections an import returns
MaxTime == 6       \* clock ticks over a run of the debounce helper
MaxDebounceCalls == 4  \* calls of the debounced function over a run
MaxArg == 2        \* distinct arguments given to the debounced function
MaxUtterances == 3 \* utterances created over a run of the speech controls

\* --------------------------------------------------------------- constants
NoTok == 0             \* null / absent token, header or user
NoRefreshTokenErr == -1  \* new Error('No refresh token available')
HTTP_OK == 200
UNAUTHORIZED == 401
OTHER_ERROR == 500           \* any error that is not a 401 (network, timeout, 5xx)
NoIndex == -1          \* draggedIndex: null
Undefined == 0         \* undefined (a read past the end of an array); no timer
Wait == 2              \* debounce(..., 2000), in ticks of one second
NoCall == -1           \* the debounced function has not been called

VARIABLES
    lsAccess,          \* localStorage['access_token']
    lsRefresh,         \* localStorage['refresh_token']
    defaultHeader,     \* axios.defaults.headers.common['Authorization']
    user,              \* useState: user
    token,             \* useState: token
    refreshToken,      \* useState: refreshToken
    loading,           \* useState: loading
    refreshPromiseRef, \* useRef: index in reqs of the pending refresh, or 0
    mounted,           \* the provider's effects have run at least once
    effToken,          \* value of token at the last run of the [token] effect
    cbRefreshToken,    \* refreshToken closed over by the registered interceptor
    reqs,              \* the HTTP calls not yet forgotten, by call number, each
                       \* with its caller's progress
    nCalls,            \* HTTP calls made so far
    nextTok            \* next token pair the backend will issue

authVars == <<lsAccess, lsRefresh, defaultHeader, user, token, refreshToken,
              loading, refreshPromiseRef, mounted, effToken, cbRefreshToken, reqs,
              nCalls, nextTok>>

\* ImportCenter: the imported sections and the drag in progress.
VARIABLES
    importedSections,  \* useState: the section objects, by reference (1..n)
    sectionOrder,      \* the order field of each section object
    draggedIndex,      \* useState: index of the row being dragged, or NoIndex
    removedIds         \* history: the sections removeSection has removed

importVars == <<importedSections, sectionOrder, draggedIndex, removedIds>>

\* The debounce helper: one debounced function and the browser's timers.
VARIABLES
    now,               \* the clock, in ticks
    timers,            \* the timers set and not cleared or run: id, due, args
    timeout,           \* let timeout: id of the timer set last, or Undefined
    nTimers,           \* timers set so far
    lastCallAt,        \* history: time of the latest call, or NoCall
    lastArgs,          \* history: arguments of the latest call
    burstRuns,         \* history: runs of func since the current burst began
    ranArgs            \* history: arguments func was last run with

debounceVars == <<now, timers, timeout, nTimers, lastCallAt, lastArgs, burstRuns,
                  ranArgs>>

\* BookEditor: the text-to-speech controls and window.speechSynthesis.
VARIABLES
    isSpeaking,        \* useState: isSpeaking
    isPaused,          \* useState: isPaused
    synthPaused,       \* speechSynthesis.paused
    synthCurrent,      \* the utterance in the engine's queue, or Undefined
    synthStarted,      \* the engine has begun speaking synthCurrent
    synthEvents,       \* utterance events fired and not yet handled
    nUtterances        \* utterances created so far

speechVars == <<isSpeaking, isPaused, synthPaused, synthCurrent, synthStarted,
                synthEvents, nUtterances>>

vars == <<authVars, importVars, debounceVars, speechVars>>

\* A component that is not part of the running specification.
ImportIdle ==
    /\ importedSections = <<>>
    /\ sectionOrder = <<>>
    /\ draggedIndex = NoIndex
    /\ removedIds = {}

DebounceIdle ==
    /\ now = 0
    /\ timers = {}
    /\ timeout = Undefined
    /\ nTimers = 0
    /\ lastCallAt = NoCall
    /\ lastArgs = 0
    /\ burstRuns = 0
    /\ ranArgs = 0

SpeechIdle ==
    /\ isSpeaking = FALSE
    /\ isPaused = FALSE
    /\ synthPaused = FALSE
    /\ synthCurrent = Undefined
    /\ synthStarted = FALSE
    /\ synthEvents = {}
    /\ nUtterances = 0

AuthIdle ==
    /\ lsAccess = NoTok
    /\ lsRefresh = NoTok
    /\ defaultHeader = NoTok
    /\ user = NoTok
    /\ token = NoTok
    /\ refreshToken = NoTok
    /\ loading = TRUE
    /\ refreshPromiseRef = 0
    /\ mounted = FALSE
    /\ effToken = NoTok
    /\ cbRefreshToken = NoTok
    /\ reqs = <<>>
    /\ nCalls = 0
    /\ nextTok = 2

Kinds == {"api", "me", "login", "register", "refresh"}

\* A call is forgotten once its caller has its result: the calls still
\* awaited, and the /auth/me calls whose fetchUser has not returned.
Finished(r) == r.phase \in {"ok", "fail"} /\ r.fu \in {"na", "done", "threw"}

Live(rs) == [k \in {i \in DOMAIN rs : ~Finished(rs[i])} |-> rs[k]]

\* The part of the state the handlers read and write, as one value; the
\* calls finished before this step are dropped from it.
World ==
    [lsAccess |-> lsAccess, lsRefresh |-> lsRefresh, defaultHeader |-> defaultHeader,
     user |-> user, token |-> token, refreshToken |-> refreshToken,
     loading |-> loading, ref |-> refreshPromiseRef, reqs |-> Live(reqs),
     nCalls |-> nCalls, nextTok |-> nextTok]

SetWorld(w) ==
    /\ w.nCalls <= MaxReqs
    /\ lsAccess' = w.lsAccess
    /\ lsRefresh' = w.lsRefresh
    /\ defaultHeader' = w.defaultHeader
    /\ user' = w.user
    /\ token' = w.token
    /\ refreshToken' = w.refreshToken
    /\ loading' = w.loading
    /\ refreshPromiseRef' = w.ref
    /\ reqs' = w.reqs
    /\ nCalls' = w.nCalls
    /\ nextTok' = w.nextTok
    /\ UNCHANGED <<importVars, debounceVars, speechVars>>

\* An axios call as sent: config, the caller's position, and what it saw.
NewReq(kind, auth, body, rt) ==
    [kind   |-> kind,
     phase  |-> "sent",    \* sent | wait (interceptor awaits a refresh) | ok | fail
     retry  |-> FALSE,     \* originalRequest._retry
     sends  |-> 1,         \* times the request went to the backend
     auth   |-> auth,      \* Authorization header of the latest send
     body   |-> body,      \* refresh_token in the body (refresh calls)
     joined |-> 0,         \* refresh the interceptor awaited for this request
     err    |-> 0,         \* error given to the caller: the call whose HTTP error it is
     st     |-> 0,         \* latest HTTP status received
     tok    |-> NoTok,     \* token pair in a 200 answer of login/register/refresh
     fu     |-> IF kind = "me" THEN "run" ELSE "na",   \* fetchUser: run|wait|done|threw
     fuRT   |-> rt,        \* refreshToken closed over by this fetchUser
     fuJoin |-> 0]         \* refresh awaited in fetchUser's catch

\* The call numbered nCalls + 1 is made.
Send(w, r) ==
    [w EXCEPT !.reqs = ((w.nCalls + 1) :> r) @@ @, !.nCalls = @ + 1]

\* f applied to the value of x; x is evaluated once.
Then(x, f(_)) == CHOOSE v \in {f(u) : u \in {x}} : TRUE

\* ------------------------------------------------------------ Session store
\* Mutant: the access token is not written to localStorage.
applyAuthData_noStore(w, authData) ==
    [w EXCEPT !.lsRefresh = authData.refresh_token,
              !.defaultHeader = authData.access_token,
              !.token = authData.access_token,
              !.refreshToken = authData.refresh_token,
              !.user = authData.user]

applyAuthData(w, authData) ==
    [w EXCEPT !.lsAccess = authData.access_token,
              !.lsRefresh = authData.refresh_token,
              !.defaultHeader = authData.access_token,
              !.token = authData.access_token,
              !.refreshToken = authData.refresh_token,
              !.user = authData.user]

\* Mutant: logout also notifies the backend.
logout_callsBackend(w) ==
    Send([w EXCEPT !.lsAccess = NoTok,
                   !.lsRefresh = NoTok,
                   !.defaultHeader = NoTok,
                   !.token = NoTok,
                   !.refreshToken = NoTok,
                   !.user = NoTok],
         NewReq("api", NoTok, NoTok, NoTok))

\* Mutant: the default header is overwritten with the token held in memory
\* instead of being deleted.
logout_headerFromToken(w) ==
    [w EXCEPT !.lsAccess = NoTok,
              !.lsRefresh = NoTok,
              !.defaultHeader = w.token,
              !.token = NoTok,
              !.refreshToken = NoTok,
              !.user = NoTok]

\* Mutant: the default Authorization header is left in place.
logout_keepsHeader(w) ==
    [w EXCEPT !.lsAccess = NoTok,
              !.lsRefresh = NoTok,
              !.token = NoTok,
              !.refreshToken = NoTok,
              !.user = NoTok]

\* Mutant: the refresh token is left in localStorage.
logout_keepsRefreshToken(w) ==
    [w EXCEPT !.lsAccess = NoTok,
              !.defaultHeader = NoTok,
              !.token = NoTok,
              !.refreshToken = NoTok,
              !.user = NoTok]

logout(w) ==
    [w EXCEPT !.lsAccess = NoTok,
              !.lsRefresh = NoTok,
              !.defaultHeader = NoTok,
              !.token = NoTok,
              !.refreshToken = NoTok,
              !.user = NoTok]

AuthData(n) == [access_token |-> n, refresh_token |-> n, user |-> n]

\* ------------------------------------------------------ Request interceptor
\* Mutant: the header is overwritten with a blank value.
requestInterceptor_blankHeader(w, hdr) == IF w.lsAccess # NoTok THEN NoTok ELSE hdr

\* hdr is the header the config already has (axios defaults or explicit).
requestInterceptor(w, hdr) == IF w.lsAccess # NoTok THEN w.lsAccess ELSE hdr

\* ------------------------------------------------------ Refresh coordinator
ActiveRefreshToken(explicitRefreshToken, closureRefreshToken, stored) ==
    IF explicitRefreshToken # NoTok THEN explicitRefreshToken
    ELSE IF closureRefreshToken # NoTok THEN closureRefreshToken
    ELSE stored

\* Mutant: the in-flight check is missing, every call posts a refresh.
HasPendingRefresh_never(ref) == FALSE

\* if (refreshPromiseRef.current) return refreshPromiseRef.current;
HasPendingRefresh(ref) == ref # 0

\* Result: the world after the call and p, the pending refresh returned
\* (an index in reqs), or NoRefreshTokenErr when the call throws.
refreshTokens(w, explicitRefreshToken, closureRefreshToken) ==
    LET active == ActiveRefreshToken(explicitRefreshToken, closureRefreshToken,
                                     w.lsRefresh)
        k == w.nCalls + 1
    IN  IF active = NoTok THEN [w |-> w, p |-> NoRefreshTokenErr]
        ELSE IF HasPendingRefresh(w.ref) THEN [w |-> w, p |-> w.ref]
        ELSE [w |-> [Send(w, NewReq("refresh",
                                    requestInterceptor(w, w.defaultHeader),
                                    active, NoTok))
                        EXCEPT !.ref = k],
              p |-> k]

\* ------------------------------------------------------------- fetchUser
\* The catch and finally blocks of fetchUser for the /auth/me call i.
fetchUserCatch(w, i, errStatus) ==
    IF errStatus = UNAUTHORIZED /\ w.reqs[i].fuRT # NoTok
    THEN LET await(rt) ==
                 IF rt.p = NoRefreshTokenErr
                 THEN [rt.w EXCEPT !.reqs[i].fu = "threw", !.loading = FALSE]
                 ELSE [rt.w EXCEPT !.reqs[i].fu = "wait", !.reqs[i].fuJoin = rt.p]
         IN  Then(refreshTokens(w, NoTok, w.reqs[i].fuRT), await)
    ELSE [logout(w) EXCEPT !.reqs[i].fu = "done", !.loading = FALSE]

\* Status carried by an error object (0: no response attached).
ErrStatus(w, err) == IF err > 0 THEN w.reqs[err].st ELSE 0

\* Promise.reject(err) reaches the caller of request i.
propagate(w, i, err) ==
    LET caller(w1) ==
            IF w1.reqs[i].kind = "me" THEN fetchUserCatch(w1, i, ErrStatus(w1, err))
            ELSE w1
    IN  Then([w EXCEPT !.reqs[i].phase = "fail", !.reqs[i].err = err], caller)

\* ----------------------------------------------------- Response interceptor
\* Mutant: only the refresh route is recognised as an auth route.
isAuthRoute_refreshOnly(kind) == kind = "refresh"

isAuthRoute(kind) == kind \in {"login", "register", "refresh"}

skipAuthRefresh(kind) == kind = "refresh"

\* Mutant: the status is not tested, any error starts a refresh.
ShouldRefresh_anyError(statusCode, r) ==
    /\ ~r.retry
    /\ ~isAuthRoute(r.kind)
    /\ ~skipAuthRefresh(r.kind)

\* Mutant: the _retry marker is not consulted.
ShouldRefresh_ignoresRetry(statusCode, r) ==
    /\ statusCode = UNAUTHORIZED
    /\ ~isAuthRoute(r.kind)
    /\ ~skipAuthRefresh(r.kind)

\* Mutant: the auth-route exemption is missing.
ShouldRefresh_noAuthRouteCheck(statusCode, r) ==
    /\ statusCode = UNAUTHORIZED
    /\ ~r.retry
    /\ ~skipAuthRefresh(r.kind)

ShouldRefresh(statusCode, r) ==
    /\ statusCode = UNAUTHORIZED
    /\ ~r.retry
    /\ ~isAuthRoute(r.kind)
    /\ ~skipAuthRefresh(r.kind)

\* Mutant: the original request's 401 is rejected instead of the refresh error.
WaiterError_original(refreshErr, originalErr) == originalErr

\* catch (refreshErr) { return Promise.reject(refreshErr) }
WaiterError(refreshErr, originalErr) == refreshErr

\* A caller that awaited refresh k resumes.
ResumeWaiter(w, j, k, ok) ==
    LET r == w.reqs[j]
    IN  IF j \notin DOMAIN w.reqs THEN w
        ELSE IF r.phase = "wait" /\ r.joined = k
        THEN IF ok
             THEN [w EXCEPT !.reqs[j].phase = "sent",
                            !.reqs[j].sends = @ + 1,
                            !.reqs[j].auth = requestInterceptor(w, w.reqs[k].tok)]
             ELSE propagate(w, j, WaiterError(k, j))
        ELSE IF r.fu = "wait" /\ r.fuJoin = k
        THEN [w EXCEPT !.reqs[j].fu = IF ok THEN "done" ELSE "threw",
                       !.loading = FALSE]
        ELSE w

RECURSIVE ResumeFrom(_, _, _, _)
ResumeFrom(w, j, k, ok) ==
    IF j > w.nCalls THEN w
    ELSE LET rest(w1) == ResumeFrom(w1, j + 1, k, ok)
         IN  Then(ResumeWaiter(w, j, k, ok), rest)

\* Mutant: the waiters resume before the returned auth data is applied.
refreshSettleOk_resumesFirst(w, k, n) ==
    LET apply(w1) == [applyAuthData(w1, AuthData(n)) EXCEPT !.nextTok = n + 1]
    IN  Then(ResumeFrom([w EXCEPT !.reqs[k].phase = "ok", !.reqs[k].tok = n,
                                  !.reqs[k].st = HTTP_OK, !.ref = 0],
                        1, k, TRUE),
             apply)

\* Mutant: the finally block that resets refreshPromiseRef is missing.
refreshSettleOk_noReset(w, k, n) ==
    LET waiters(w1) == ResumeFrom(w1, 1, k, TRUE)
    IN  Then([applyAuthData(w, AuthData(n)) EXCEPT
                 !.reqs[k].phase = "ok", !.reqs[k].tok = n, !.reqs[k].st = HTTP_OK,
                 !.nextTok = n + 1],
             waiters)

\* .then(applyAuthData; return res.data) .finally(ref = null), then the waiters
refreshSettleOk(w, k, n) ==
    LET waiters(w1) == ResumeFrom(w1, 1, k, TRUE)
    IN  Then([applyAuthData(w, AuthData(n)) EXCEPT
                 !.reqs[k].phase = "ok", !.reqs[k].tok = n, !.reqs[k].st = HTTP_OK,
                 !.ref = 0, !.nextTok = n + 1],
             waiters)

\* .catch(logout; throw err) .finally(ref = null), then the waiters
refreshSettleFail(w, k) ==
    LET waiters(w1) == ResumeFrom(w1, 1, k, FALSE)
    IN  Then([logout(w) EXCEPT
                 !.reqs[k].phase = "fail", !.reqs[k].err = k, !.ref = 0],
             waiters)

\* The rejected handler of the response interceptor for request i.
responseInterceptorError(w, i, statusCode) ==
    LET await(rt) ==
            IF rt.p = NoRefreshTokenErr
            THEN propagate(rt.w, i, NoRefreshTokenErr)
            ELSE [rt.w EXCEPT !.reqs[i].phase = "wait", !.reqs[i].joined = rt.p]
        refresh(w1) == Then(refreshTokens(w1, w1.lsRefresh, cbRefreshToken), await)
        handle(w0) ==
            IF ShouldRefresh(statusCode, w0.reqs[i])
            THEN Then([w0 EXCEPT !.reqs[i].retry = TRUE], refresh)
            ELSE IF w0.reqs[i].kind = "refresh" THEN refreshSettleFail(w0, i)
            ELSE propagate(w0, i, i)
    IN  Then([w EXCEPT !.reqs[i].st = statusCode], handle)

\* The fulfilled path: (response) => response, then the caller's continuation.
responseOk(w, i) ==
    LET r == w.reqs[i]
        w0 == [w EXCEPT !.reqs[i].st = HTTP_OK]
    IN  CASE r.kind = "refresh" -> refreshSettleOk(w0, i, w.nextTok)
          [] r.kind \in {"login", "register"} ->
                [applyAuthData(w0, AuthData(w.nextTok)) EXCEPT
                    !.reqs[i].phase = "ok", !.reqs[i].tok = w.nextTok,
                    !.nextTok = @ + 1]
          [] r.kind = "me" ->
                [w0 EXCEPT !.reqs[i].phase = "ok", !.reqs[i].fu = "done",
                           !.user = r.auth, !.loading = FALSE]
          [] OTHER -> [w0 EXCEPT !.reqs[i].phase = "ok"]

\* ------------------------------------------------------------------ actions
Init ==
    /\ lsAccess \in {NoTok, 1}
    /\ lsRefresh = lsAccess
    /\ defaultHeader = NoTok
    /\ user = NoTok
    /\ token = lsAccess
    /\ refreshToken = lsRefresh
    /\ loading = TRUE
    /\ refreshPromiseRef = 0
    /\ mounted = FALSE
    /\ effToken = NoTok
    /\ cbRefreshToken = NoTok
    /\ reqs = <<>>
    /\ nCalls = 0
    /\ nextTok = 2
    /\ ImportIdle
    /\ DebounceIdle
    /\ SpeechIdle

\* Mutant: the [token] effect does nothing when there is no token.
Render_noLoadingReset ==
    /\ ~mounted \/ token # effToken \/ refreshToken # cbRefreshToken
    /\ mounted' = TRUE
    /\ cbRefreshToken' = refreshToken
    /\ effToken' = token
    /\ IF (~mounted \/ token # effToken) /\ token # NoTok
       THEN LET w1 == [World EXCEPT !.defaultHeader = token]
            IN  SetWorld(Send(w1,
                   NewReq("me", requestInterceptor(w1, w1.defaultHeader),
                          NoTok, refreshToken)))
       ELSE SetWorld(World)

\* A React commit: the interceptors are registered again with the current
\* refreshTokens, and the [token] effect runs when token changed (or on mount).
Render ==
    /\ ~mounted \/ token # effToken \/ refreshToken # cbRefreshToken
    /\ mounted' = TRUE
    /\ cbRefreshToken' = refreshToken
    /\ effToken' = token
    /\ IF ~mounted \/ token # effToken
       THEN IF token # NoTok
            THEN LET w1 == [World EXCEPT !.defaultHeader = token]
                 IN  SetWorld(Send(w1,
                        NewReq("me", requestInterceptor(w1, w1.defaultHeader),
                               NoTok, refreshToken)))
            ELSE SetWorld([World EXCEPT !.loading = FALSE])
       ELSE SetWorld(World)

\* A page component calls a protected endpoint.
IssueApi ==
    /\ mounted
    /\ SetWorld(Send(World,
            NewReq("api", requestInterceptor(World, defaultHeader), NoTok, NoTok)))
    /\ UNCHANGED <<mounted, effToken, cbRefreshToken>>

\* AuthPage disables its submit button while a login or register call is pending.
AuthCallPending ==
    \E k \in DOMAIN reqs :
        reqs[k].kind \in {"login", "register"} /\ reqs[k].phase = "sent"

Login ==
    /\ mounted
    /\ ~AuthCallPending
    /\ SetWorld(Send(World,
            NewReq("login", requestInterceptor(World, defaultHeader), NoTok, NoTok)))
    /\ UNCHANGED <<mounted, effToken, cbRefreshToken>>

Register ==
    /\ mounted
    /\ ~AuthCallPending
    /\ SetWorld(Send(World,
            NewReq("register", requestInterceptor(World, defaultHeader), NoTok, NoTok)))
    /\ UNCHANGED <<mounted, effToken, cbRefreshToken>>

Logout ==
    /\ mounted
    /\ SetWorld(logout(World))
    /\ UNCHANGED <<mounted, effToken, cbRefreshToken>>

\* The backend answers call i with 200.
RespondOk(i) ==
    /\ reqs[i].phase = "sent"
    /\ reqs[i].kind \in {"login", "register", "refresh"} => nextTok <= MaxTok
    /\ reqs[i].kind \in {"api", "me"} => reqs[i].auth # NoTok
    /\ \E w \in {responseOk(World, i)} : SetWorld(w)
    /\ UNCHANGED <<mounted, effToken, cbRefreshToken>>

\* The backend answers call i with 401.
RespondUnauthorized(i) ==
    /\ reqs[i].phase = "sent"
    /\ \E w \in {responseInterceptorError(World, i, UNAUTHORIZED)} : SetWorld(w)
    /\ UNCHANGED <<mounted, effToken, cbRefreshToken>>

\* Call i fails with an error that is not a 401.
RespondError(i) ==
    /\ reqs[i].phase = "sent"
    /\ \E w \in {responseInterceptorError(World, i, OTHER_ERROR)} : SetWorld(w)
    /\ UNCHANGED <<mounted, effToken, cbRefreshToken>>

Next ==
    \/ Render
    \/ IssueApi
    \/ Login
    \/ Register
    \/ Logout
    \/ \E i \in DOMAIN reqs : RespondOk(i)
    \/ \E i \in DOMAIN reqs : RespondUnauthorized(i)
    \/ \E i \in DOMAIN reqs : RespondError(i)

Spec == Init /\ [][Next]_vars

\* ------------------------------------------------------------------ helpers
Refreshes == {k \in DOMAIN reqs : reqs[k].kind = "refresh"}

Protected == {j \in DOMAIN reqs : reqs[j].kind \in {"api", "me"}}

\* Calls made in this step (call numbers are never reused).
NewCalls == DOMAIN reqs' \ DOMAIN reqs

SessionCleared ==
    /\ lsAccess = NoTok /\ lsRefresh = NoTok
    /\ token = NoTok /\ refreshToken = NoTok
    /\ user = NoTok /\ defaultHeader = NoTok

\* Call j, sent and not awaiting anything, gets its answer in this step.
Answered(j) == reqs[j].phase = "sent" /\ reqs'[j].phase # "sent"

\* The interceptor calls refreshTokens for request j in this step.
InterceptorRefreshes(j) ==
    /\ reqs[j].phase = "sent"
    /\ ~reqs[j].retry
    /\ reqs'[j].retry

\* fetchUser's catch calls refreshTokens for its own /auth/me call j, which
\* is answered in this step.
FetchUserRefreshes(j) ==
    /\ reqs[j].phase = "sent"
    /\ reqs[j].fu = "run"
    /\ reqs'[j].fu = "wait"

\* A refresh token is available to the interceptor's call of refreshTokens.
TokenAvailable == ActiveRefreshToken(lsRefresh, cbRefreshToken, lsRefresh) # NoTok

\* Refresh call k gets its answer in this step.
RefreshSettles(k) == reqs[k].kind = "refresh" /\ Answered(k)

\* Refresh call k is rejected by the backend in this step.
RefreshRejected(k) == RefreshSettles(k) /\ reqs'[k].phase = "fail"

\* The protected requests whose interceptor awaits refresh k.
Waiters(k) == {j \in Protected : reqs[j].phase = "wait" /\ reqs[j].joined = k}

AtMostOnePendingRefresh ==
    /\ Cardinality({k \in Refreshes : reqs[k].phase = "sent"}) <= 1
    /\ \A k \in Refreshes : reqs[k].phase = "sent" => refreshPromiseRef = k

\* Every waiting request awaits the pending refresh call.
WaitersAwaitPending ==
    \A j \in Protected : reqs[j].phase = "wait" =>
        /\ reqs[j].joined = refreshPromiseRef
        /\ refreshPromiseRef \in Refreshes
        /\ reqs[refreshPromiseRef].phase = "sent"

\* The first 401 of a window posts the refresh call, the later ones post none.
OneCallServes(j) ==
    /\ reqs'[j].phase = "wait"
    /\ reqs'[j].joined = refreshPromiseRef'
    /\ IF refreshPromiseRef # 0
       THEN NewCalls = {} /\ refreshPromiseRef' = refreshPromiseRef
       ELSE NewCalls = {refreshPromiseRef'} /\ reqs'[refreshPromiseRef'].kind = "refresh"

\* The waiters of a refresh call are all replayed or all fail with its error.
SameOutcome(k) ==
    \/ \A j \in Waiters(k) : reqs'[j].phase = "sent" /\ reqs'[j].sends = 2
    \/ \A j \in Waiters(k) : reqs'[j].phase = "fail" /\ reqs'[j].err = k

\* -------------------------------------------------------------------- C1
\* C1 as stated: every protected request that gets a 401 is served by exactly
\* one refresh call, the one pending in its refresh window (posted by the first
\* 401 of the window), and all requests of the window are replayed together or
\* fail together with that call's error.
C1_OneRefreshForAll401 ==
    /\ [](AtMostOnePendingRefresh /\ WaitersAwaitPending)
    /\ [][\A j \in DOMAIN reqs : InterceptorRefreshes(j) => OneCallServes(j)]_vars
    /\ [][\A k \in DOMAIN reqs : RefreshSettles(k) => SameOutcome(k)]_vars

\* C1 (amended): the protected requests that get their 401 while a refresh
\* token is available (in localStorage or in the interceptor's closure) are
\* served by exactly one refresh call per refresh window, and they are all
\* replayed after it succeeds or all fail with its error; a request that gets
\* its 401 with no refresh token available fails with the no-refresh-token
\* error and no refresh call is sent for it.
C1_OneRefreshPerWindow ==
    /\ [](AtMostOnePendingRefresh /\ WaitersAwaitPending)
    /\ [][\A j \in DOMAIN reqs : InterceptorRefreshes(j) =>
            IF TokenAvailable THEN OneCallServes(j)
            ELSE /\ reqs'[j].err = NoRefreshTokenErr
                 /\ reqs'[j].joined = 0
                 /\ NewCalls = {}]_vars
    /\ [][\A k \in DOMAIN reqs : RefreshSettles(k) => SameOutcome(k)]_vars

C1_Witness ==
    \E j1, j2 \in Protected : \E k \in Refreshes :
        /\ j1 # j2
        /\ reqs[k].phase = "ok"
        /\ reqs[j1].joined = k /\ reqs[j2].joined = k
        /\ reqs[j1].phase = "sent" /\ reqs[j2].phase = "sent"
        /\ reqs[j1].sends = 2 /\ reqs[j2].sends = 2

\* -------------------------------------------------------------------- C2
\* C2 as stated: at most one refresh call is in flight, and any call of
\* refreshTokens made while refreshPromiseRef is set returns the pending
\* refresh and sends no backend call.
C2_JoinsWheneverPending ==
    /\ []AtMostOnePendingRefresh
    /\ [][\A j \in DOMAIN reqs :
            (refreshPromiseRef # 0 /\ InterceptorRefreshes(j)) =>
                /\ reqs'[j].phase = "wait"
                /\ reqs'[j].joined = refreshPromiseRef
                /\ NewCalls = {}]_vars

\* C2 (amended): at most one refresh call is in flight in every reachable
\* state; a call of refreshTokens made while refreshPromiseRef is set sends no
\* backend call, and it returns the pending refresh when a refresh token is
\* available to it, and throws the no-refresh-token error otherwise.
C2_AtMostOneRefreshInFlight ==
    /\ []AtMostOnePendingRefresh
    /\ [][\A j \in DOMAIN reqs :
            (refreshPromiseRef # 0 /\ InterceptorRefreshes(j)) =>
                /\ NewCalls = {}
                /\ refreshPromiseRef' = refreshPromiseRef
                /\ IF TokenAvailable
                   THEN reqs'[j].phase = "wait" /\ reqs'[j].joined = refreshPromiseRef
                   ELSE reqs'[j].phase = "fail" /\ reqs'[j].err = NoRefreshTokenErr]_vars
    /\ [][\A j \in DOMAIN reqs :
            (refreshPromiseRef # 0 /\ FetchUserRefreshes(j)) =>
                /\ NewCalls = {}
                /\ refreshPromiseRef' = refreshPromiseRef
                /\ reqs'[j].fuJoin = refreshPromiseRef]_vars

C2_Witness ==
    \E j1, j2 \in Protected :
        /\ j1 # j2
        /\ refreshPromiseRef # 0
        /\ reqs[j1].phase = "wait" /\ reqs[j1].joined = refreshPromiseRef
        /\ reqs[j2].phase = "wait" /\ reqs[j2].joined = refreshPromiseRef

C5_LogoutClearsSession ==
    /\ [][Logout => SessionCleared']_vars
    /\ [][SessionCleared => \A k \in NewCalls : reqs'[k].auth = NoTok]_vars

C5_Witness ==
    /\ SessionCleared
    /\ \E i, j \in DOMAIN reqs :
          /\ i < j
          /\ reqs[i].auth # NoTok
          /\ reqs[j].kind = "api" /\ reqs[j].sends = 1 /\ reqs[j].auth = NoTok

\* -------------------------------------------------------------------- C6
\* C6: when the refresh a protected request awaits succeeds, the request is
\* sent again exactly once, carrying the access token that refresh returned,
\* and no other call is made; its caller sees no error while it waits or is
\* replayed, and sees success when the replay is answered with 200.
C6_TransparentRefresh ==
    /\ [](\A j \in Protected : reqs[j].phase \in {"wait", "sent"} => reqs[j].err = 0)
    /\ [][\A k \in DOMAIN reqs : (RefreshSettles(k) /\ reqs'[k].phase = "ok") =>
            /\ NewCalls = {}
            /\ \A j \in Waiters(k) :
                  /\ reqs[j].sends = 1
                  /\ reqs'[j].phase = "sent"
                  /\ reqs'[j].sends = 2
                  /\ reqs'[j].auth = reqs'[k].tok]_vars
    /\ [][\A j \in Protected :
            (Answered(j) /\ reqs[j].retry /\ reqs'[j].st = HTTP_OK) =>
                /\ reqs'[j].phase = "ok"
                /\ reqs'[j].err = 0
                /\ reqs'[j].sends = 2]_vars

C6_Witness ==
    \E j \in Protected :
        /\ reqs[j].kind = "api"
        /\ reqs[j].retry /\ reqs[j].sends = 2 /\ reqs[j].joined # 0
        /\ reqs[j].auth = lsAccess
        /\ reqs[j].st = HTTP_OK /\ reqs[j].phase = "ok"

\* -------------------------------------------------------------------- C7
\* C7: when the refresh call a protected request awaits is rejected, the
\* session is cleared in that step and the request's caller is given the
\* refresh call's error, not the request's own 401; the request is not sent
\* again.
C7_RefreshErrorSupersedes ==
    [][\A k \in DOMAIN reqs : RefreshRejected(k) =>
          /\ SessionCleared'
          /\ \A j \in Waiters(k) :
                /\ reqs'[j].phase = "fail"
                /\ reqs'[j].err = k
                /\ reqs'[j].sends = 1]_vars

C7_Witness ==
    /\ SessionCleared
    /\ \E j \in Protected : \E k \in Refreshes :
          /\ reqs[j].kind = "api"
          /\ reqs[j].st = UNAUTHORIZED
          /\ reqs[j].phase = "fail"
          /\ reqs[j].joined = k /\ reqs[j].err = k
          /\ reqs[k].st = UNAUTHORIZED

\* -------------------------------------------------------------------- C8
\* Request j fails with the no-refresh-token error in this step.
FailsWithNoRefreshToken(j) ==
    /\ reqs[j].phase = "sent"
    /\ reqs'[j].err = NoRefreshTokenErr

\* C8: a refresh requested with no refresh token available fails at once with
\* the no-refresh-token error, sends no backend call, and leaves the session
\* cleared.
C8_NoRefreshTokenClearsSession ==
    [][\A j \in DOMAIN reqs : FailsWithNoRefreshToken(j) =>
          /\ reqs'[j].phase = "fail"
          /\ NewCalls = {}
          /\ SessionCleared']_vars

\* -------------------------------------------------------------------- C9
\* C9: when the backend rejects a refresh call, the session is cleared, every
\* caller awaiting it gets the failure, and no further refresh call is sent.
C9_RejectedRefreshEndsThere ==
    [][\A k \in DOMAIN reqs : RefreshRejected(k) =>
          /\ SessionCleared'
          /\ \A j \in Waiters(k) : reqs'[j].phase = "fail" /\ reqs'[j].err = k
          /\ \A j \in DOMAIN reqs :
                (reqs[j].fu = "wait" /\ reqs[j].fuJoin = k) => reqs'[j].fu = "threw"
          /\ NewCalls = {}
          /\ refreshPromiseRef' = 0]_vars

\* -------------------------------------------------------------------- C10
SessionUnchanged ==
    UNCHANGED <<lsAccess, lsRefresh, token, refreshToken, user, defaultHeader>>

\* C10: a login or register call that fails went to the backend once, is
\* rejected to its caller with its own error without the interceptor acting
\* on it, sends no refresh call, and leaves the tokens in localStorage and in
\* memory, the user and the default header as they were.
C10_FailedLoginLeavesSession ==
    [][\A j \in DOMAIN reqs :
          (/\ Answered(j)
           /\ reqs[j].kind \in {"login", "register"}
           /\ reqs'[j].st # HTTP_OK) =>
              /\ reqs'[j].phase = "fail"
              /\ reqs'[j].err = j
              /\ reqs'[j].sends = 1
              /\ reqs'[j].joined = 0
              /\ NewCalls = {}
              /\ SessionUnchanged]_vars

C10_Witness ==
    /\ lsAccess # NoTok /\ lsRefresh # NoTok /\ user # NoTok
    /\ \E j \in DOMAIN reqs :
          /\ reqs[j].kind \in {"login", "register"}
          /\ reqs[j].phase = "fail" /\ reqs[j].err = j

\* ------------------------------------------------------------------- C11
\* The calls whose caller still awaits something.
LiveCalls == {j \in DOMAIN reqs : ~Finished(reqs[j])}

\* C11: logout() can be called in every state of the mounted provider
\* (authenticated, anonymous, loading, refresh in flight); it sends no call
\* to the backend, and it touches neither the calls in flight nor the
\* in-flight refresh marker.
C11_LogoutIsLocal ==
    /\ [](mounted => ENABLED Logout)
    /\ [][Logout =>
            /\ NewCalls = {}
            /\ nCalls' = nCalls
            /\ reqs' = Live(reqs)
            /\ refreshPromiseRef' = refreshPromiseRef
            /\ loading' = loading]_vars

C11_Witness ==
    /\ SessionCleared
    /\ loading
    /\ refreshPromiseRef # 0
    /\ \E j \in Protected :
          /\ reqs[j].kind = "api"
          /\ reqs[j].phase = "wait"
          /\ reqs[j].joined = refreshPromiseRef
          /\ reqs[j].auth # NoTok

\* ------------------------------------------------------------------- C12
\* The session part of a world value.
SessionOf(w) ==
    <<w.lsAccess, w.lsRefresh, w.defaultHeader, w.token, w.refreshToken, w.user>>

\* C12: logout() applied twice gives the state logout() applied once gives,
\* from every reachable state; called on a cleared session it leaves the
\* session as it was (no tokens, no default header, user null).
C12_LogoutIdempotent ==
    /\ [](logout(logout(World)) = logout(World))
    /\ [](SessionOf(logout(World)) = <<NoTok, NoTok, NoTok, NoTok, NoTok, NoTok>>)
    /\ [][(Logout /\ SessionCleared) => (SessionUnchanged /\ SessionCleared')]_vars

C12_Witness ==
    /\ SessionCleared
    /\ mounted
    /\ effToken # NoTok
    /\ SessionOf(logout(World)) = SessionOf(World)

\* ------------------------------------------------------------------- C13
\* C13: every call made carries the access token the session holds at that
\* moment (the one the latest applyAuthData stored); the header of a call
\* already made changes only when the call is replayed, once, after the refresh
\* it awaited, and a call goes to the backend a second time only that way.
C13_NewRequestsCarryNewToken ==
    /\ [][\A k \in NewCalls : token' # NoTok => reqs'[k].auth = token']_vars
    /\ [][\A j \in LiveCalls : reqs'[j].auth # reqs[j].auth =>
            /\ reqs[j].phase = "wait"
            /\ reqs'[j].phase = "sent"
            /\ reqs'[j].auth = token']_vars
    /\ [][\A j \in LiveCalls : reqs'[j].sends # reqs[j].sends =>
            /\ reqs[j].phase = "wait"
            /\ reqs[j].retry
            /\ reqs[j].sends = 1
            /\ reqs'[j].sends = 2]_vars

C13_Witness ==
    \E i, j \in DOMAIN reqs :
        /\ i < j
        /\ reqs[i].phase = "sent" /\ reqs[i].sends = 1
        /\ reqs[i].auth # NoTok /\ reqs[i].auth # token
        /\ reqs[j].kind = "api" /\ reqs[j].sends = 1
        /\ token >= 2
        /\ reqs[j].auth = token

\* ------------------------------------------------------------------- C14
\* The backend answers call i.
Respond(i) ==
    /\ i \in DOMAIN reqs
    /\ RespondOk(i) \/ RespondUnauthorized(i) \/ RespondError(i)

\* Calls made over a run of the fair specification.
MaxFairReqs == MaxReqs - 1

FairNext == Next /\ nCalls' <= MaxFairReqs

\* The backend answers every call.
FairSpec ==
    /\ Init
    /\ [][FairNext]_vars
    /\ \A i \in 1..MaxFairReqs : WF_vars(Respond(i) /\ nCalls' <= MaxFairReqs)

\* Protected request j has not completed for its caller.
PendingForCaller(j) ==
    /\ j \in DOMAIN reqs
    /\ reqs[j].kind \in {"api", "me"}
    /\ reqs[j].phase \in {"sent", "wait"}

CompletedForCaller(j) ==
    j \in DOMAIN reqs => reqs[j].phase \in {"ok", "fail"}

\* C14: when the backend answers every call, every protected request completes
\* for its caller, with success or failure; it goes to the backend at most
\* twice and its interceptor awaits at most one refresh.
C14_ProtectedRequestCompletes ==
    /\ [](\A j \in Protected : reqs[j].sends <= 2)
    /\ [][\A j \in LiveCalls : reqs[j].joined # 0 =>
            /\ reqs'[j].joined = reqs[j].joined
            /\ reqs'[j].phase # "wait" \/ reqs[j].phase = "wait"]_vars
    /\ \A j \in 1..MaxFairReqs : PendingForCaller(j) ~> CompletedForCaller(j)

C14_Witness ==
    \E j \in Protected :
        /\ reqs[j].phase \in {"ok", "fail"}
        /\ reqs[j].sends = 2
        /\ reqs[j].joined # 0
        /\ reqs[j].st # 0

\* ------------------------------------------------------------------- C15
\* The calls sent to the backend in this step: new calls and replays.
SentNow == NewCalls \cup {j \in LiveCalls : reqs'[j].sends # reqs[j].sends}

\* C15 as stated: every call sent carries the stored access token, except the
\* login, register and refresh calls, which carry no Authorization header.
C15_BearerExceptAuthRoutes ==
    [][\A k \in SentNow :
          IF reqs'[k].kind \in {"login", "register", "refresh"}
          THEN reqs'[k].auth = NoTok
          ELSE reqs'[k].auth = lsAccess']_vars

\* C15 (amended): every call sent carries the access token stored at that
\* moment, the login, register and refresh calls included; a call sent while
\* no access token is stored carries no Authorization header.
C15_BearerOnEveryRequest ==
    [][\A k \in SentNow : reqs'[k].auth = lsAccess']_vars

C15_Witness ==
    /\ lsAccess # NoTok
    /\ \E j \in Protected : \E k \in Refreshes :
          /\ reqs[j].phase = "wait" /\ reqs[j].joined = k
          /\ reqs[j].auth = lsAccess
          /\ reqs[k].phase = "sent"
          /\ reqs[k].auth = lsAccess

\* ------------------------------------------------------------------- C16
\* C16: refreshPromiseRef never names a refresh call that has been answered:
\* the step in which a refresh call is answered, accepted or rejected, leaves
\* it empty or naming a call made after the reset; a 401 on a protected
\* request not yet retried that finds it empty, a refresh token being
\* available, posts a new refresh call and awaits that one.
C16_MarkerResetAfterRefresh ==
    /\ [](refreshPromiseRef # 0 =>
            /\ refreshPromiseRef \in Refreshes
            /\ reqs[refreshPromiseRef].phase = "sent")
    /\ [][\A k \in DOMAIN reqs : RefreshSettles(k) =>
            /\ refreshPromiseRef' # k
            /\ refreshPromiseRef' = 0 \/ refreshPromiseRef' \in NewCalls
            /\ \A j \in LiveCalls : reqs'[j].phase = "wait" => reqs'[j].joined # k]_vars
    /\ [][\A j \in DOMAIN reqs :
            (InterceptorRefreshes(j) /\ refreshPromiseRef = 0 /\ TokenAvailable) =>
                /\ refreshPromiseRef' \in NewCalls
                /\ reqs'[refreshPromiseRef'].kind = "refresh"
                /\ reqs'[refreshPromiseRef'].phase = "sent"
                /\ reqs'[j].joined = refreshPromiseRef']_vars

C16_Witness ==
    \E i, j \in Protected :
        /\ reqs[i].joined # 0
        /\ reqs[i].joined < refreshPromiseRef
        /\ reqs[i].sends = 2
        /\ reqs[j].phase = "wait"
        /\ reqs[j].joined = refreshPromiseRef
        /\ reqs[refreshPromiseRef].phase = "sent"

\* ------------------------------------------------------------------- C17
\* The session holds the auth data d in memory, in localStorage and in the
\* default header.
SessionHolds(d) ==
    /\ lsAccess = d /\ lsRefresh = d
    /\ token = d /\ refreshToken = d
    /\ user = d
    /\ defaultHeader = d

\* C17: in the step in which the backend accepts refresh call k, the auth data
\* it returned is the session's (memory, localStorage, default header); every
\* request whose interceptor awaited k is sent again with the access token of
\* that same auth data, read after it was stored; every fetchUser that awaited
\* k returns.
C17_RefreshDataApplied ==
    [][\A k \in DOMAIN reqs : (RefreshSettles(k) /\ reqs'[k].phase = "ok") =>
          /\ reqs'[k].tok # NoTok
          /\ lsAccess' = reqs'[k].tok /\ lsRefresh' = reqs'[k].tok
          /\ token' = reqs'[k].tok /\ refreshToken' = reqs'[k].tok
          /\ user' = reqs'[k].tok
          /\ defaultHeader' = reqs'[k].tok
          /\ \A j \in Waiters(k) :
                /\ reqs'[j].phase = "sent"
                /\ reqs'[j].auth = reqs'[k].tok
                /\ reqs'[j].auth = lsAccess'
          /\ \A j \in LiveCalls :
                (reqs[j].fu = "wait" /\ reqs[j].fuJoin = k) => reqs'[j].fu = "done"]_vars

C17_Witness ==
    \E k \in Refreshes :
        /\ reqs[k].phase = "ok"
        /\ SessionHolds(reqs[k].tok)
        /\ \E j \in Protected :
              /\ reqs[j].joined = k
              /\ reqs[j].phase = "sent"
              /\ reqs[j].sends = 2
              /\ reqs[j].auth = reqs[k].tok

\* ------------------------------------------------------------------- C18
\* The provider's effects run for the first time in this step.
Initializes == ~mounted /\ mounted'

\* C18: before the first effects run the store is loading with no user and no
\* call made; when they run with no persisted access token, loading becomes
\* false and the user stays null without any call; when they run with a
\* persisted access token, the current-user fetch is the one call made, with
\* that token, and when that fetch is answered 200 the user is the fetched
\* user, loading is false and the tokens are as they were.
C18_InitializeEnds ==
    /\ [](~mounted => (loading /\ user = NoTok /\ nCalls = 0))
    /\ [][(Initializes /\ token = NoTok) =>
            /\ ~loading'
            /\ user' = NoTok
            /\ nCalls' = 0
            /\ NewCalls = {}]_vars
    /\ [][(Initializes /\ token # NoTok) =>
            /\ loading'
            /\ nCalls' = 1
            /\ NewCalls = {1}
            /\ reqs'[1].kind = "me"
            /\ reqs'[1].auth = token]_vars
    /\ [][\A j \in LiveCalls :
            (/\ reqs[j].kind = "me"
             /\ reqs[j].sends = 1
             /\ Answered(j)
             /\ reqs'[j].st = HTTP_OK) =>
                /\ user' = reqs[j].auth
                /\ user' # NoTok
                /\ ~loading'
                /\ reqs'[j].fu = "done"
                /\ NewCalls = {}
                /\ UNCHANGED <<lsAccess, lsRefresh, token, refreshToken>>]_vars

C18_Witness ==
    /\ mounted
    /\ ~loading
    /\ user # NoTok
    /\ token = user /\ lsAccess = user
    /\ 1 \in DOMAIN reqs
    /\ reqs[1].kind = "me"
    /\ reqs[1].sends = 1
    /\ reqs[1].phase = "ok"
    /\ reqs[1].fu = "done"
    /\ reqs[1].auth = user

\* ------------------------------------------------------------------- C19
\* The current-user fetches whose interceptor awaits refresh k.
FetchWaiters(k) == {j \in Waiters(k) : reqs[j].kind = "me"}

\* A current-user fetch answered 401 with a refresh token present has a
\* refresh invoked for it; the store does not fall back to anonymous yet.
RefreshBeforeFallback ==
    \A j \in LiveCalls :
        (/\ reqs[j].kind = "me"
         /\ InterceptorRefreshes(j)
         /\ TokenAvailable) =>
            /\ reqs'[j].phase = "wait"
            /\ reqs'[j].joined = refreshPromiseRef'
            /\ refreshPromiseRef' # 0
            /\ loading' = loading
            /\ SessionUnchanged

\* The refresh succeeds: the store holds the refreshed tokens and user, the
\* fetch is replayed, and the replay answered 200 ends the run authenticated
\* with loading false.
RefreshedEndsAuthenticated ==
    /\ \A k \in DOMAIN reqs :
          (RefreshSettles(k) /\ reqs'[k].phase = "ok" /\ FetchWaiters(k) # {}) =>
              /\ token' = reqs'[k].tok /\ refreshToken' = reqs'[k].tok
              /\ lsAccess' = reqs'[k].tok /\ lsRefresh' = reqs'[k].tok
              /\ user' = reqs'[k].tok
              /\ \A j \in FetchWaiters(k) :
                    reqs'[j].phase = "sent" /\ reqs'[j].auth = reqs'[k].tok
    /\ \A j \in LiveCalls :
          (/\ reqs[j].kind = "me"
           /\ reqs[j].retry
           /\ Answered(j)
           /\ reqs'[j].st = HTTP_OK) =>
              /\ user' = reqs[j].auth
              /\ user' # NoTok
              /\ ~loading'
              /\ reqs'[j].fu = "done"
              /\ UNCHANGED <<lsAccess, lsRefresh, token, refreshToken>>

\* The refresh fails: the store ends anonymous with the tokens cleared and
\* loading false, the fetch's fetchUser having returned.
RejectedEndsAnonymous ==
    \A k \in DOMAIN reqs :
        (RefreshRejected(k) /\ FetchWaiters(k) # {}) =>
            /\ SessionCleared'
            /\ ~loading'
            /\ NewCalls = {}
            /\ \A j \in FetchWaiters(k) :
                  reqs'[j].phase = "fail" /\ reqs'[j].fu \in {"done", "threw"}

\* C19: a current-user fetch answered 401 while a refresh token is present has
\* a refresh invoked before the store falls back to anonymous; if the refresh
\* succeeds the store ends authenticated with the refreshed tokens and user,
\* if it fails the store ends anonymous with the tokens cleared, and loading
\* ends false in both cases.
C19_InitializeRefreshes ==
    /\ [][RefreshBeforeFallback]_vars
    /\ [][RefreshedEndsAuthenticated]_vars
    /\ [][RejectedEndsAnonymous]_vars

\* ------------------------------------------------------------------- C20
\* C20: a call that fails with an error other than a 401 is rejected to its
\* caller with that same error: it is not sent again, its _retry marker is not
\* set, no refresh is awaited for it and no call is made; for a page request,
\* a login or a register call the session, the loading flag and the in-flight
\* refresh marker are left as they were.  (For a current-user fetch and for a
\* refresh call it is the caller, fetchUser or refreshTokens, that then logs
\* out.)
C20_OtherErrorsPassThrough ==
    [][\A j \in LiveCalls :
          (Answered(j) /\ reqs'[j].st = OTHER_ERROR) =>
              /\ reqs'[j].phase = "fail"
              /\ reqs'[j].err = j
              /\ reqs'[j].sends = reqs[j].sends
              /\ reqs'[j].retry = reqs[j].retry
              /\ reqs'[j].joined = reqs[j].joined
              /\ NewCalls = {}
              /\ reqs[j].kind \in {"api", "login", "register"} =>
                    /\ SessionUnchanged
                    /\ loading' = loading
                    /\ refreshPromiseRef' = refreshPromiseRef]_vars

C20_Witness ==
    /\ lsRefresh # NoTok
    /\ user # NoTok
    /\ \E j \in Protected :
          /\ reqs[j].kind = "api"
          /\ reqs[j].st = OTHER_ERROR
          /\ reqs[j].phase = "fail" /\ reqs[j].err = j
          /\ reqs[j].sends = 1 /\ ~reqs[j].retry

\* ------------------------------------------------------------------ C21
\* The refresh made for request j by the response interceptor in this step.
MadeByInterceptor(k) ==
    \E j \in DOMAIN reqs \cap DOMAIN reqs' :
        InterceptorRefreshes(j) /\ reqs'[j].joined = k

\* C21: a refresh call made in a step carries the explicit refresh token when
\* its caller gave one (the interceptor gives the one in localStorage at the
\* time of the 401), and otherwise the refresh token stored when the call is
\* made: the one in memory, then the one in localStorage.
C21_RefreshSendsStoredToken ==
    [][\A k \in NewCalls :
          reqs'[k].kind = "refresh" =>
              LET explicit == IF MadeByInterceptor(k) THEN lsRefresh ELSE NoTok
              IN  reqs'[k].body =
                      IF explicit # NoTok THEN explicit
                      ELSE IF refreshToken' # NoTok THEN refreshToken'
                      ELSE lsRefresh']_vars

\* ------------------------------------------------------------------ C22
\* C22: a run of the startup current-user fetch has at most one refresh call
\* sent for it: once the interceptor has awaited a refresh for the fetch,
\* fetchUser's catch sends no refresh call of its own, also when that refresh
\* was rejected with a 401.
C22_OneRefreshPerInitialize ==
    [][\A j \in DOMAIN reqs \cap DOMAIN reqs' :
          (reqs[j].kind = "me" /\ reqs[j].joined # 0) =>
              reqs'[j].fuJoin \notin NewCalls]_vars

\* ------------------------------------------------------------------ C23
\* A login or register call is answered 200 in this step.
SignsIn ==
    \E j \in DOMAIN reqs :
        /\ reqs[j].kind \in {"login", "register"}
        /\ Answered(j)
        /\ reqs'[j].phase = "ok"

\* C23: a session cleared by logout() stays cleared until a login or register
\* call succeeds: the answer to a refresh or to a current-user fetch that was
\* in flight when logout() ran restores neither the tokens nor the user.
C23_LogoutStaysCleared ==
    [][(SessionCleared /\ ~SignsIn) => SessionCleared']_vars

\* ------------------------------------------------------------------ C24
\* C24: in every reachable state a user is set only if an access token is
\* stored, in localStorage and in memory.
C24_UserOnlyWithToken ==
    user # NoTok => (lsAccess # NoTok /\ token # NoTok)

\* ------------------------------------------------------------------ C25
\* C25: starting with both tokens or neither in localStorage, in every state
\* reached by login, register, refresh and logout the access token and the
\* refresh token are both present or both absent, and the tokens in memory
\* equal the tokens in localStorage.
C25_TokensPairedAndMirrored ==
    /\ (lsAccess = NoTok) <=> (lsRefresh = NoTok)
    /\ token = lsAccess
    /\ refreshToken = lsRefresh

\* A refresh has just succeeded and the pair it returned is the one stored.
C25_Witness ==
    \E k \in DOMAIN reqs :
        /\ reqs[k].kind = "refresh"
        /\ reqs[k].phase = "ok"
        /\ reqs[k].tok # NoTok
        /\ lsAccess = reqs[k].tok
        /\ lsRefresh = reqs[k].tok
        /\ token = reqs[k].tok
        /\ refreshToken = reqs[k].tok

\* ------------------------------------------------------------------ C26
\* The backend answers every call and React runs the effects of a commit.
FairRenderSpec ==
    /\ FairSpec
    /\ WF_vars(Render /\ nCalls' <= MaxFairReqs)

\* C26: the loading flag is true from construction until the first effects
\* run; when the backend answers, it becomes false on every path of the
\* startup run (no token, fetch answered 200 or failed, refresh succeeded or
\* failed); once false it never returns to true, whatever auth operations
\* follow.
C26_LoadingEndsAndStaysFalse ==
    /\ [](~mounted => loading)
    /\ [][~loading => ~loading']_vars
    /\ <>(~loading)

\* The startup fetch went through a refresh that was rejected, logins and
\* logouts followed, and loading is false.
C26_Witness ==
    /\ ~loading
    /\ mounted
    /\ \E j \in DOMAIN reqs :
          /\ reqs[j].kind = "me"
          /\ reqs[j].joined # 0
          /\ reqs[j].fu \in {"done", "threw"}

\* ------------------------------------------------------------------ C27
\* What a route element renders: the pulse placeholder, its children (the
\* page), or a <Navigate to=... replace />.
Placeholder == "placeholder"
Children == "children"
NavigateAuth == "Navigate /auth"
NavigateDashboard == "Navigate /dashboard"

\* Mutant: the loading check is missing.
ProtectedRoute_noLoadingCheck(isLoading, currentUser) ==
    IF currentUser # NoTok THEN Children ELSE NavigateAuth

ProtectedRoute(isLoading, currentUser) ==
    IF isLoading THEN Placeholder
    ELSE IF currentUser # NoTok THEN Children ELSE NavigateAuth

PublicRoute(isLoading, currentUser) ==
    IF isLoading THEN Placeholder
    ELSE IF currentUser # NoTok THEN NavigateDashboard ELSE Children

\* C27: a protected route renders its page exactly when loading is false and
\* a user is set; while loading it renders neither the page nor a redirect;
\* with loading false and no user it redirects to /auth.  The public route
\* redirects to /dashboard exactly when loading is false and a user is set.
C27_RouteGuards ==
    /\ (ProtectedRoute(loading, user) = Children) <=> (~loading /\ user # NoTok)
    /\ loading => ProtectedRoute(loading, user) \notin {Children, NavigateAuth,
                                                        NavigateDashboard}
    /\ (~loading /\ user = NoTok) => ProtectedRoute(loading, user) = NavigateAuth
    /\ (PublicRoute(loading, user) = NavigateDashboard) <=>
           (~loading /\ user # NoTok)

\* A login succeeded while the startup fetch was still in flight: a user is
\* set and the store is still loading.
C27_Witness ==
    /\ loading
    /\ user # NoTok
    /\ ProtectedRoute(loading, user) = Placeholder
    /\ PublicRoute(loading, user) = Placeholder

\* ============================================================ ImportCenter
\* array[i] for a 0-based index i: undefined past the end.
At(list, i) == IF i >= 0 /\ i < Len(list) THEN list[i + 1] ELSE Undefined

\* Mutant: nothing is taken out of the array.
SpliceDelete_nothing(list, start) == list

\* array.splice(start, 1): no element is removed when start is past the end.
SpliceDelete(list, start) ==
    IF start < Len(list)
    THEN SubSeq(list, 1, start) \o SubSeq(list, start + 2, Len(list))
    ELSE list

\* array.splice(start, 0, item): start is clamped to the length.
SpliceInsert(list, start, item) ==
    LET k == IF start > Len(list) THEN Len(list) ELSE start
    IN  SubSeq(list, 1, k) \o <<item>> \o SubSeq(list, k + 1, Len(list))

\* newSections.forEach((s, i) => s.order = i): the objects are written in
\* place, and the write to an undefined element throws a TypeError, which
\* ends the handler.
UpdateOrder(list, order) ==
    LET undefinedAt == {p \in 1..Len(list) : list[p] = Undefined}
        reached == IF undefinedAt = {} THEN Len(list)
                   ELSE (CHOOSE p \in undefinedAt : \A q \in undefinedAt : p <= q) - 1
    IN  [threw |-> undefinedAt # {},
         order |-> [id \in DOMAIN order |->
                       LET at == {p \in 1..reached : list[p] = id}
                       IN  IF at = {} THEN order[id]
                           ELSE (CHOOSE p \in at : \A q \in at : q <= p) - 1]]

\* The rows rendered, by index.
Rows == 0..(Len(importedSections) - 1)

\* The state after an import: n sections in the order returned, each with
\* its index as order.
ImportInit ==
    /\ \E n \in 1..MaxSections :
          /\ importedSections = [i \in 1..n |-> i]
          /\ sectionOrder = [id \in 1..n |-> id - 1]
    /\ draggedIndex = NoIndex
    /\ removedIds = {}
    /\ AuthIdle
    /\ DebounceIdle
    /\ SpeechIdle

handleDragStart(index) ==
    /\ index \in Rows
    /\ draggedIndex' = index
    /\ UNCHANGED <<importedSections, sectionOrder, removedIds>>
    /\ UNCHANGED <<authVars, debounceVars, speechVars>>

handleDragOver(index) ==
    /\ index \in Rows
    /\ IF draggedIndex = NoIndex \/ draggedIndex = index
       THEN UNCHANGED <<importedSections, sectionOrder, draggedIndex>>
       ELSE LET draggedItem == At(importedSections, draggedIndex)
                newSections ==
                    SpliceInsert(SpliceDelete(importedSections, draggedIndex),
                                 index, draggedItem)
                updated == UpdateOrder(newSections, sectionOrder)
            IN  /\ sectionOrder' = updated.order
                /\ IF updated.threw
                   THEN UNCHANGED <<importedSections, draggedIndex>>
                   ELSE /\ importedSections' = newSections
                        /\ draggedIndex' = index
    /\ UNCHANGED removedIds
    /\ UNCHANGED <<authVars, debounceVars, speechVars>>

handleDragEnd ==
    /\ draggedIndex' = NoIndex
    /\ UNCHANGED <<importedSections, sectionOrder, removedIds>>
    /\ UNCHANGED <<authVars, debounceVars, speechVars>>

removeSection(index) ==
    /\ index \in Rows
    /\ LET newSections ==
               SelectSeq([p \in 1..Len(importedSections) |->
                             IF p - 1 # index THEN importedSections[p] ELSE NoIndex],
                         LAMBDA x : x # NoIndex)
           updated == UpdateOrder(newSections, sectionOrder)
       IN  /\ sectionOrder' = updated.order
           /\ IF updated.threw
              THEN UNCHANGED importedSections
              ELSE importedSections' = newSections
    /\ removedIds' = removedIds \cup {At(importedSections, index)}
    /\ UNCHANGED draggedIndex
    /\ UNCHANGED <<authVars, debounceVars, speechVars>>

ImportNext ==
    \/ \E index \in 0..(MaxSections - 1) : handleDragStart(index)
    \/ \E index \in 0..(MaxSections - 1) : handleDragOver(index)
    \/ handleDragEnd
    \/ \E index \in 0..(MaxSections - 1) : removeSection(index)

ImportSpec == ImportInit /\ [][ImportNext]_vars

\* ------------------------------------------------------------------ C28
\* The sections in the list, as a set.
Listed == {importedSections[p] : p \in 1..Len(importedSections)}

\* C28: after any sequence of drag-start, drag-over, drag-end and remove
\* operations the list holds exactly the imported sections minus the removed
\* ones, none undefined and none twice, and the order field of every section
\* in the list equals its index.
C28_SectionsKeptAndOrdered ==
    /\ Undefined \notin Listed
    /\ Cardinality(Listed) = Len(importedSections)
    /\ Listed = DOMAIN sectionOrder \ removedIds
    /\ \A p \in 1..Len(importedSections) :
          sectionOrder[importedSections[p]] = p - 1

\* A section was removed while a drag was in progress, and a later drag-over
\* has left the remaining sections in another order than the imported one.
C28_Witness ==
    /\ removedIds # {}
    /\ draggedIndex # NoIndex
    /\ Len(importedSections) >= 2
    /\ \E p \in 1..(Len(importedSections) - 1) :
          importedSections[p] > importedSections[p + 1]

\* ================================================================ debounce
\* Time is counted in ticks.  A timer runs at the tick it is due: while one
\* is due the clock does not advance and no other task runs.

\* Mutant: the timer set before is left running.
clearTimeout_keeps(ts, id) == ts

\* clearTimeout(id): a no-op for an id that names no timer.
clearTimeout(ts, id) == {t \in ts : t.id # id}

\* setTimeout(later, wait), later holding the arguments of this call.
setTimeout(ts, id, args) == ts \cup {[id |-> id, due |-> now + Wait, args |-> args]}

TimerDue == \E t \in timers : t.due <= now

\* debounce(func, wait) has returned executedFunction; nothing is called yet.
DebounceInit ==
    /\ DebounceIdle
    /\ AuthIdle
    /\ ImportIdle
    /\ SpeechIdle

\* executedFunction(...args): a call of the debounced function.
executedFunction(args) ==
    /\ ~TimerDue
    /\ nTimers < MaxDebounceCalls
    /\ timers' = setTimeout(clearTimeout(timers, timeout), nTimers + 1, args)
    /\ timeout' = nTimers + 1
    /\ nTimers' = nTimers + 1
    /\ burstRuns' = IF lastCallAt # NoCall /\ now - lastCallAt < Wait
                    THEN burstRuns ELSE 0
    /\ lastCallAt' = now
    /\ lastArgs' = args
    /\ UNCHANGED <<now, ranArgs>>
    /\ UNCHANGED <<authVars, importVars, speechVars>>

\* later(): the timer t runs; func is called with the arguments it holds.
later(t) ==
    /\ t \in timers
    /\ t.due <= now
    /\ timers' = clearTimeout(timers \ {t}, timeout)
    /\ burstRuns' = burstRuns + 1
    /\ ranArgs' = t.args
    /\ UNCHANGED <<now, timeout, nTimers, lastCallAt, lastArgs>>
    /\ UNCHANGED <<authVars, importVars, speechVars>>

Tick ==
    /\ ~TimerDue
    /\ now < MaxTime
    /\ now' = now + 1
    /\ UNCHANGED <<timers, timeout, nTimers, lastCallAt, lastArgs, burstRuns,
                   ranArgs>>
    /\ UNCHANGED <<authVars, importVars, speechVars>>

DebounceNext ==
    \/ \E args \in 1..MaxArg : executedFunction(args)
    \/ \E t \in timers : later(t)
    \/ Tick

DebounceSpec == DebounceInit /\ [][DebounceNext]_vars

\* ------------------------------------------------------------------ C29
\* C29: a burst of calls, each less than Wait after the one before, runs the
\* wrapped function exactly once: not before Wait has passed since the last
\* call of the burst, once at that time with the arguments of that last call,
\* and not again afterwards.
C29_BurstRunsOnceAfterWait ==
    /\ []((lastCallAt # NoCall /\ now < lastCallAt + Wait) => burstRuns = 0)
    /\ []((lastCallAt # NoCall /\ now > lastCallAt + Wait) => burstRuns = 1)
    /\ [][burstRuns' > burstRuns =>
            /\ burstRuns' = 1
            /\ now = lastCallAt + Wait
            /\ ranArgs' = lastArgs]_vars

\* A burst of three calls made within one tick has been served by one run,
\* Wait after its last call and with the arguments of that call.
C29_Witness ==
    /\ nTimers = 3
    /\ lastCallAt = 1
    /\ now = lastCallAt + Wait
    /\ burstRuns = 1
    /\ ranArgs = lastArgs
    /\ timers = {}

\* ========================================================= text-to-speech
\* window.speechSynthesis holds at most one utterance: speakText cancels
\* before it speaks.  The engine fires the events of an utterance in order
\* (start before end or error); the events of a cancelled utterance are
\* fired asynchronously and are handled in no fixed order relative to the
\* events of the utterance spoken next.
StartEvent == "start"
EndEvent == "end"
ErrorEvent == "error"

\* speechSynthesis.cancel(): the queue is emptied, speaking ceases, and an
\* error event (canceled or interrupted) is fired on the utterance removed.
\* The paused state of the engine is left as it is.
EventsAfterCancel ==
    IF synthCurrent # Undefined
    THEN synthEvents \cup {[u |-> synthCurrent, type |-> ErrorEvent]}
    ELSE synthEvents

SpeechInit ==
    /\ SpeechIdle
    /\ AuthIdle
    /\ ImportIdle
    /\ DebounceIdle

speakText(hasText) ==
    /\ IF ~hasText
       THEN UNCHANGED <<synthEvents, synthCurrent, synthStarted, nUtterances>>
       ELSE /\ nUtterances < MaxUtterances
            /\ synthEvents' = EventsAfterCancel
            /\ synthCurrent' = nUtterances + 1
            /\ synthStarted' = FALSE
            /\ nUtterances' = nUtterances + 1
    /\ UNCHANGED <<isSpeaking, isPaused, synthPaused>>
    /\ UNCHANGED <<authVars, importVars, debounceVars>>

pauseSpeech ==
    /\ IF isSpeaking /\ ~isPaused
       THEN synthPaused' = TRUE /\ isPaused' = TRUE
       ELSE UNCHANGED <<synthPaused, isPaused>>
    /\ UNCHANGED <<isSpeaking, synthCurrent, synthStarted, synthEvents, nUtterances>>
    /\ UNCHANGED <<authVars, importVars, debounceVars>>

resumeSpeech ==
    /\ IF isPaused
       THEN synthPaused' = FALSE /\ isPaused' = FALSE
       ELSE UNCHANGED <<synthPaused, isPaused>>
    /\ UNCHANGED <<isSpeaking, synthCurrent, synthStarted, synthEvents, nUtterances>>
    /\ UNCHANGED <<authVars, importVars, debounceVars>>

stopSpeech ==
    /\ synthEvents' = EventsAfterCancel
    /\ synthCurrent' = Undefined
    /\ synthStarted' = FALSE
    /\ isSpeaking' = FALSE
    /\ isPaused' = FALSE
    /\ UNCHANGED <<synthPaused, nUtterances>>
    /\ UNCHANGED <<authVars, importVars, debounceVars>>

\* The engine begins to speak the queued utterance.
EngineStarts ==
    /\ synthCurrent # Undefined
    /\ ~synthStarted
    /\ ~synthPaused
    /\ synthStarted' = TRUE
    /\ synthEvents' = synthEvents \cup {[u |-> synthCurrent, type |-> StartEvent]}
    /\ UNCHANGED <<isSpeaking, isPaused, synthPaused, synthCurrent, nUtterances>>
    /\ UNCHANGED <<authVars, importVars, debounceVars>>

\* The utterance has been spoken to its end.
EngineEnds ==
    /\ synthCurrent # Undefined
    /\ synthStarted
    /\ ~synthPaused
    /\ synthCurrent' = Undefined
    /\ synthStarted' = FALSE
    /\ synthEvents' = synthEvents \cup {[u |-> synthCurrent, type |-> EndEvent]}
    /\ UNCHANGED <<isSpeaking, isPaused, synthPaused, nUtterances>>
    /\ UNCHANGED <<authVars, importVars, debounceVars>>

\* The synthesis of the utterance fails.
EngineFails ==
    /\ synthCurrent # Undefined
    /\ synthCurrent' = Undefined
    /\ synthStarted' = FALSE
    /\ synthEvents' = synthEvents \cup {[u |-> synthCurrent, type |-> ErrorEvent]}
    /\ UNCHANGED <<isSpeaking, isPaused, synthPaused, nUtterances>>
    /\ UNCHANGED <<authVars, importVars, debounceVars>>

\* utterance.onstart
onstart(e) ==
    /\ e \in synthEvents
    /\ e.type = StartEvent
    /\ synthEvents' = synthEvents \ {e}
    /\ isSpeaking' = TRUE
    /\ isPaused' = FALSE
    /\ UNCHANGED <<synthPaused, synthCurrent, synthStarted, nUtterances>>
    /\ UNCHANGED <<authVars, importVars, debounceVars>>

\* utterance.onend
onend(e) ==
    /\ e \in synthEvents
    /\ e.type = EndEvent
    /\ [u |-> e.u, type |-> StartEvent] \notin synthEvents
    /\ synthEvents' = synthEvents \ {e}
    /\ isSpeaking' = FALSE
    /\ isPaused' = FALSE
    /\ UNCHANGED <<synthPaused, synthCurrent, synthStarted, nUtterances>>
    /\ UNCHANGED <<authVars, importVars, debounceVars>>

\* utterance.onerror
onerror(e) ==
    /\ e \in synthEvents
    /\ e.type = ErrorEvent
    /\ [u |-> e.u, type |-> StartEvent] \notin synthEvents
    /\ synthEvents' = synthEvents \ {e}
    /\ isSpeaking' = FALSE
    /\ isPaused' = FALSE
    /\ UNCHANGED <<synthPaused, synthCurrent, synthStarted, nUtterances>>
    /\ UNCHANGED <<authVars, importVars, debounceVars>>

SpeechNext ==
    \/ \E hasText \in BOOLEAN : speakText(hasText)
    \/ pauseSpeech
    \/ resumeSpeech
    \/ stopSpeech
    \/ EngineStarts
    \/ EngineEnds
    \/ EngineFails
    \/ \E e \in synthEvents : onstart(e)
    \/ \E e \in synthEvents : onend(e)
    \/ \E e \in synthEvents : onerror(e)

SpeechSpec == SpeechInit /\ [][SpeechNext]_vars

\* ------------------------------------------------------------------ C30
\* An utterance is being spoken and its start event has been handled.
BeingSpoken ==
    /\ synthCurrent # Undefined
    /\ synthStarted
    /\ [u |-> synthCurrent, type |-> StartEvent] \notin synthEvents

\* C30: in every reachable state isPaused implies isSpeaking, and isSpeaking
\* is true whenever an utterance is being spoken, for any sequence of speak,
\* pause, resume, stop and utterance start, end and error events.
C30_SpeechFlagsFollowEngine ==
    /\ isPaused => isSpeaking
    /\ BeingSpoken => isSpeaking

====
